---------------------------- MODULE Spec2Model ----------------------------
(***************************************************************************)
(* A model of excel_merge.py: ExcelMerger merges an "update" workbook into *)
(* a "master" workbook.  One run is load_data, handle_duplicates,          *)
(* process_updates (one step per update row), handle_timestamps,           *)
(* clean_data, save_result, wrapped by main's try/except.                  *)
(*                                                                         *)
(* A DataFrame is a sequence of rows; a row is a function from column      *)
(* names to cell values, with the pandas index label under "index".  The   *)
(* column set of a frame is kept beside it (an empty frame has columns).   *)
(* Cell values: names and keys are strings (NaNStr is the missing string), *)
(* timestamps and data cells are integers (NaN = 0 is the missing value,   *)
(* Unparsable = -1 a timestamp text that pd.to_datetime cannot parse).     *)
(***************************************************************************)
EXTENDS Integers, Sequences, FiniteSets, TLC

VARIABLES
    include_extra_columns,  \* constructor argument
    pc,                     \* position in run() / main()
    master_df,              \* self.master_df rows
    master_columns,         \* self.master_df.columns
    update_df,              \* self.update_df rows
    update_columns,         \* self.update_df.columns
    common_columns,         \* self.common_columns
    extra_columns,          \* self.extra_columns
    added_columns,          \* self.added_columns
    updated_rows,           \* self.updated_rows
    unmatched_entries,      \* self.unmatched_entries
    cursor,                 \* position of iterrows() in process_updates
    error,                  \* the exception raised, "" when none
    exit_code,              \* main()'s return value, -1 while running
    output_file,            \* the workbook written by save_result
    master_loaded,          \* history: master_df as load_data left it
    update_loaded,          \* history: update_df as load_data left it
    postal_code,            \* the value format_postal_code is applied to
    postal_input,           \* history: the value before the first application
    applications            \* how often format_postal_code has been applied

vars == <<include_extra_columns, pc, master_df, master_columns, update_df,
          update_columns, common_columns, extra_columns, added_columns,
          updated_rows, unmatched_entries, cursor, error, exit_code,
          output_file, master_loaded, update_loaded,
          postal_code, postal_input, applications>>

(* The state of the merge run; the state of a cell being formatted.        *)
merge_vars == <<include_extra_columns, pc, master_df, master_columns, update_df,
                update_columns, common_columns, extra_columns, added_columns,
                updated_rows, unmatched_entries, cursor, error, exit_code,
                output_file, master_loaded, update_loaded>>
postal_vars == <<postal_code, postal_input, applications>>

-----------------------------------------------------------------------------
(* Bounds of the model.                                                    *)
MaxMaster == 3
MaxUpdate == 2
MaxTime == 2
MaxVal == 2
MaxDigits == 6
MaxApply == 2

(* Missing values.                                                         *)
NaN == 0
NaNStr == "<NaN>"
Unparsable == -1
NoFile == [columns |-> {}, rows |-> <<>>]

-----------------------------------------------------------------------------
(* class FieldNames                                                        *)
MASTER_FIRSTNAME == "etunimi"
MASTER_LASTNAME == "sukunimi"
MASTER_UPDATED == "päivitys pvm"
MASTER_UPDATED_2 == "päivitys pvm2"
MASTER_ADDRESS == "katuosoite"
MASTER_EMAIL == "sähköposti"
MASTER_PHONE == "puhelinnumero"
MASTER_POSTAL_CODE == "postinumero"
UPDATE_FULLNAME == "etu- ja sukunimi"
UPDATE_TIMESTAMP == "completion time"
UPDATE_ADDRESS == "kadunnimi ja numero"
UPDATE_EMAIL == "sähköpostiosoite"
UPDATE_PHONE == "puhelinnumero"
FULL_NAME_KEY == "full_name_key"
UPDATED_FLAG == "Updated"
BIRTH_YEAR == "syntymävuosi"
INDEX == "index"

(* FieldNames.get_field_mappings: update column -> master column, in the   *)
(* dict's insertion order.                                                 *)
field_mappings ==
    << [update_field |-> UPDATE_ADDRESS, master_field |-> MASTER_ADDRESS],
       [update_field |-> UPDATE_EMAIL, master_field |-> MASTER_EMAIL] >>

update_name_field == UPDATE_FULLNAME
update_timestamp_field == UPDATE_TIMESTAMP
master_firstname_field == MASTER_FIRSTNAME
master_lastname_field == MASTER_LASTNAME
master_updated_field == MASTER_UPDATED

MappingSources == {field_mappings[k].update_field : k \in DOMAIN field_mappings}
MappingTargets == {field_mappings[k].master_field : k \in DOMAIN field_mappings}

-----------------------------------------------------------------------------
(* pandas / str helpers                                                    *)
isna(v) == v = NaN
notna(v) == v # NaN

(* str.strip on the strings of the model.                                  *)
StrStrip(s) ==
    CASE s = " Anna" -> "Anna"
      [] s = "Anna Korhonen " -> "Anna Korhonen"
      [] s = " Katuosoite" -> "Katuosoite"
      [] OTHER -> s

(* str.lower on the strings of the model.                                  *)
StrLower(s) ==
    CASE s = "Anna" -> "anna"
      [] s = "Anna korhonen" -> "anna korhonen"
      [] s = "Anna Korhonen" -> "anna korhonen"
      [] s = "Katuosoite" -> "katuosoite"
      [] OTHER -> s

(* Series.str.strip / Series.str.lower: a missing string stays missing.    *)
SeriesStrip(s) == IF s = NaNStr THEN NaNStr ELSE StrStrip(s)
SeriesLower(s) == IF s = NaNStr THEN NaNStr ELSE StrLower(s)
SeriesConcat(s, t) == IF s = NaNStr \/ t = NaNStr THEN NaNStr ELSE s \o t

(* pd.to_datetime(errors='coerce') on one cell.                            *)
ToDatetime(v) == IF v = Unparsable THEN NaN ELSE v

(* df.columns.str.strip().str.lower()                                      *)
NormalizeColumn(c) == StrLower(StrStrip(c))

Range(s) == {s[k] : k \in DOMAIN s}
MaxOf(S) == CHOOSE x \in S : \A y \in S : y <= x


-----------------------------------------------------------------------------
(* The workbooks a run may be given.  A workbook is its header row and its *)
(* data rows.  Four bounded families of (master, update) pairs:            *)
(*   Dedup  - one master row and up to MaxUpdate update rows that vary in  *)
(*            name and timestamp, to exercise handle_duplicates;           *)
(*   Match  - up to MaxMaster master rows and up to MaxUpdate update rows  *)
(*            that vary in name and address, to exercise the matching;     *)
(*   Wide   - one master row and one update row over every column kind     *)
(*            (mapped, same-named, update-only, legacy timestamp);         *)
(*   Schema - one row each, with at most one configured column missing     *)
(*            from each workbook, a header that needs normalising, and an  *)
(*            update workbook that has a column named like the master's    *)
(*            address column beside the mapped address column.             *)
RECURSIVE Rows(_, _)
Rows(cols, dom) ==
    IF cols = {} THEN {<<>>}
    ELSE LET c == CHOOSE x \in cols : TRUE
         IN  {(c :> v) @@ r : v \in dom[c], r \in Rows(cols \ {c}, dom)}

RECURSIVE SeqsUpTo(_, _)
SeqsUpTo(S, n) ==
    IF n = 0 THEN {<<>>}
    ELSE LET shorter == SeqsUpTo(S, n - 1)
         IN  shorter \cup {Append(s, x) : s \in {t \in shorter : Len(t) = n - 1}, x \in S}

Workbooks(cols, dom, lens) ==
    {[columns |-> cols, rows |-> rs] : rs \in {s \in SeqsUpTo(Rows(cols, dom), MaxOf(lens)) : Len(s) \in lens}}

Times == 0..MaxTime
Vals == 0..MaxVal

DedupMasterDom ==
    (MASTER_FIRSTNAME :> {" Anna"}) @@ (MASTER_LASTNAME :> {"korhonen"})
    @@ (MASTER_UPDATED :> {NaN}) @@ (MASTER_ADDRESS :> {1})
DedupUpdateDom ==
    (UPDATE_FULLNAME :> {"anna korhonen", "Anna Korhonen ", "erkki korhonen", NaNStr})
    @@ (UPDATE_TIMESTAMP :> Times) @@ (UPDATE_ADDRESS :> {MaxVal})
DedupPairs ==
    {[master |-> m, update |-> u] :
        m \in Workbooks(DOMAIN DedupMasterDom, DedupMasterDom, {1}),
        u \in Workbooks(DOMAIN DedupUpdateDom, DedupUpdateDom, 0..MaxUpdate)}

MatchMasterDom ==
    (MASTER_FIRSTNAME :> {"anna", "erkki"}) @@ (MASTER_LASTNAME :> {"korhonen"})
    @@ (MASTER_UPDATED :> {NaN}) @@ (MASTER_ADDRESS :> {1})
MatchUpdateDom ==
    (UPDATE_FULLNAME :> {"anna korhonen", "erkki korhonen"})
    @@ (UPDATE_TIMESTAMP :> {1}) @@ (UPDATE_ADDRESS :> {NaN, MaxVal})
MatchPairs ==
    {[master |-> m, update |-> u] :
        m \in Workbooks(DOMAIN MatchMasterDom, MatchMasterDom, 1..MaxMaster),
        u \in Workbooks(DOMAIN MatchUpdateDom, MatchUpdateDom, 0..MaxUpdate)}

WideMasterDom ==
    (MASTER_FIRSTNAME :> {"anna"}) @@ (MASTER_LASTNAME :> {"korhonen"})
    @@ (MASTER_UPDATED :> {NaN, MaxTime}) @@ (MASTER_UPDATED_2 :> {NaN, 1})
    @@ (MASTER_ADDRESS :> {NaN, 1}) @@ (MASTER_EMAIL :> {1}) @@ (MASTER_PHONE :> {NaN, 1})
WideUpdateDom ==
    (UPDATE_FULLNAME :> {"anna korhonen"}) @@ (UPDATE_TIMESTAMP :> Times)
    @@ (UPDATE_ADDRESS :> Vals) @@ (UPDATE_EMAIL :> {NaN, MaxVal}) @@ (UPDATE_PHONE :> Vals)
    @@ (BIRTH_YEAR :> {NaN, 1})
WidePairs ==
    {[master |-> m, update |-> u] :
        m \in Workbooks(DOMAIN WideMasterDom, WideMasterDom, {1}),
        u \in Workbooks(DOMAIN WideUpdateDom, WideUpdateDom, {1})}

SchemaMasterRow ==
    (MASTER_FIRSTNAME :> "anna") @@ (MASTER_LASTNAME :> "korhonen")
    @@ (MASTER_UPDATED :> Unparsable) @@ (MASTER_UPDATED_2 :> Unparsable)
    @@ (MASTER_ADDRESS :> 1) @@ (MASTER_EMAIL :> 1) @@ (MASTER_PHONE :> 1)
SchemaUpdateRow ==
    (UPDATE_FULLNAME :> "anna korhonen") @@ (UPDATE_TIMESTAMP :> Unparsable)
    @@ (UPDATE_ADDRESS :> 2) @@ (UPDATE_EMAIL :> 2) @@ (UPDATE_PHONE :> 2)
    @@ (BIRTH_YEAR :> 1)
Restrict(row, cols) == [c \in cols |-> row[c]]
Rename(row, from, to) == [c \in (DOMAIN row \ {from}) \cup {to} |-> IF c = to THEN row[from] ELSE row[c]]
OneRowBook(row) == [columns |-> DOMAIN row, rows |-> <<row>>]
SchemaMasters ==
    {OneRowBook(SchemaMasterRow), OneRowBook(Rename(SchemaMasterRow, MASTER_ADDRESS, " Katuosoite"))}
    \cup {OneRowBook(Restrict(SchemaMasterRow, DOMAIN SchemaMasterRow \ {c})) :
            c \in DOMAIN SchemaMasterRow \ {MASTER_UPDATED}}
SchemaUpdates ==
    {OneRowBook(SchemaUpdateRow), OneRowBook(SchemaUpdateRow @@ (MASTER_ADDRESS :> 1))}
    \cup {OneRowBook(Restrict(SchemaUpdateRow, DOMAIN SchemaUpdateRow \ {c})) : c \in DOMAIN SchemaUpdateRow}
SchemaPairs == {[master |-> m, update |-> u] : m \in SchemaMasters, u \in SchemaUpdates}

WorkbookPairs == DedupPairs \cup MatchPairs \cup WidePairs \cup SchemaPairs

-----------------------------------------------------------------------------
(* format_postal_code (lines 477-495), a static method applied to the      *)
(* cells of a postal-code column.  A cell's value is a record: its Python  *)
(* type, its number (an int's value; a float's value counted in halves, so *)
(* that 25 is 12.5) and its characters (a str's).                          *)
Absent == [type |-> "NaN", num |-> 0, chars |-> <<>>]
IntValue(n) == [type |-> "int", num |-> n, chars |-> <<>>]
FloatValue(halves) == [type |-> "float", num |-> halves, chars |-> <<>>]
Infinity == [type |-> "inf", num |-> 0, chars |-> <<>>]
StrValue(cs) == [type |-> "str", num |-> 0, chars |-> cs]
OverflowError == [type |-> "OverflowError", num |-> 0, chars |-> <<>>]

PostalWidth == 5

DigitChars == {"0", "1", "2", "3", "4", "5", "6", "7", "8", "9"}
DigitChar(d) == <<"0", "1", "2", "3", "4", "5", "6", "7", "8", "9">>[d + 1]

(* str(n) of an int n                                                      *)
RECURSIVE NatStr(_)
NatStr(n) == IF n < 10 THEN <<DigitChar(n)>> ELSE Append(NatStr(n \div 10), DigitChar(n % 10))
IntStr(n) == IF n < 0 THEN <<"-">> \o NatStr(-n) ELSE NatStr(n)

(* int(x) of a float x given in halves: the fraction is cut off, towards   *)
(* zero.                                                                   *)
IntOfFloat(halves) == IF halves < 0 THEN -((-halves) \div 2) ELSE halves \div 2

(* str.zfill(width): zeros are put in front up to the width, behind a      *)
(* leading sign; a string of the width or longer is returned as it is.     *)
StrZfill(cs, width) ==
    LET zeros == [k \in 1..(width - Len(cs)) |-> "0"]
    IN  IF Len(cs) >= width THEN cs
        ELSE IF cs # <<>> /\ Head(cs) \in {"+", "-"} THEN <<Head(cs)>> \o zeros \o Tail(cs)
        ELSE zeros \o cs

(* str.isdigit(): at least one character, and every character a digit.    *)
StrIsDigit(cs) == cs # <<>> /\ \A k \in DOMAIN cs : cs[k] \in DigitChars

format_postal_code(postal) ==
    CASE postal.type = "NaN" -> postal
      [] postal.type = "inf" -> OverflowError        \* int(float('inf')) raises
      [] postal.type = "int" -> StrValue(StrZfill(IntStr(postal.num), PostalWidth))
      [] postal.type = "float" -> StrValue(StrZfill(IntStr(IntOfFloat(postal.num)), PostalWidth))
      [] postal.type = "str" /\ StrIsDigit(postal.chars) -> StrValue(StrZfill(postal.chars, PostalWidth))
      [] OTHER -> postal

(* The values format_postal_code is given: absent, ints and floats of      *)
(* either sign with up to MaxDigits digits, infinity, every string of up   *)
(* to MaxDigits of the digits 0 and 5, and some strings that are not all   *)
(* digits.                                                                 *)
RECURSIVE Pow10(_)
Pow10(k) == IF k = 0 THEN 1 ELSE 10 * Pow10(k - 1)

IntInputs ==
    {0} \cup {sign * (lead * Pow10(k) + tail) :
                sign \in {-1, 1}, lead \in {1, 9}, k \in 0..(MaxDigits - 1), tail \in {0, 7}}
FloatInputs == {2 * n : n \in IntInputs} \cup {2 * n + 1 : n \in IntInputs}
DigitStrings == SeqsUpTo({"0", "5"}, MaxDigits) \ {<<>>}
OtherStrings ==
    {<<>>, <<"-", "5">>, <<"+", "5">>, <<"1", ".", "5">>,
     <<"0", "0", "1", "0", "0", " ">>, <<"F", "I", "-", "0", "0", "1", "0", "0">>}
PostalInputs ==
    {Absent, Infinity}
    \cup {IntValue(n) : n \in IntInputs}
    \cup {FloatValue(h) : h \in FloatInputs}
    \cup {StrValue(cs) : cs \in DigitStrings \cup OtherStrings}

-----------------------------------------------------------------------------
(* __init__ (lines 46-80) and the start of main (lines 518-530).           *)
Init ==
    /\ include_extra_columns \in BOOLEAN
    /\ pc = "load_data"
    /\ master_df = <<>>
    /\ master_columns = {}
    /\ update_df = <<>>
    /\ update_columns = {}
    /\ common_columns = {}
    /\ extra_columns = {}
    /\ added_columns = {}
    /\ updated_rows = 0
    /\ unmatched_entries = <<>>
    /\ cursor = 0
    /\ error = ""
    /\ exit_code = -1
    /\ output_file = NoFile
    /\ master_loaded = <<>>
    /\ update_loaded = <<>>
    /\ postal_code = Absent
    /\ postal_input = Absent
    /\ applications = 0

-----------------------------------------------------------------------------
(* load_data                                                               *)

(* pd.read_excel followed by the column-name normalisation of lines        *)
(* 124-125; read_excel labels the rows 0, 1, ...                           *)
ReadExcel(book) ==
    LET cols == {NormalizeColumn(c) : c \in book.columns}
        Raw(c) == CHOOSE r \in book.columns : NormalizeColumn(r) = c
    IN  [columns |-> cols,
         rows |-> [k \in DOMAIN book.rows |->
                     [c \in cols \cup {INDEX} |->
                        IF c = INDEX THEN k - 1 ELSE book.rows[k][Raw(c)]]]]

(* A column read without a single string in it is not of object dtype, and *)
(* the .str accessor raises on it.                                         *)
StrAccessorFails(rows, col) ==
    Len(rows) > 0 /\ \A k \in DOMAIN rows : rows[k][col] = NaNStr

(* The exception lines 148-151 raise, "" when none.                        *)
MasterKeyError(m) ==
    CASE master_firstname_field \notin m.columns -> "KeyError"
      [] StrAccessorFails(m.rows, master_firstname_field) -> "AttributeError"
      [] master_lastname_field \notin m.columns -> "KeyError"
      [] StrAccessorFails(m.rows, master_lastname_field) -> "AttributeError"
      [] OTHER -> ""

(* The exception lines 154-157 raise, "" when none.                        *)
UpdateKeyError(u) ==
    CASE update_name_field \notin u.columns -> "KeyError"
      [] StrAccessorFails(u.rows, update_name_field) -> "AttributeError"
      [] update_timestamp_field \notin u.columns -> "KeyError"
      [] OTHER -> ""

(* lines 148-151 *)
MasterFullNameKey(row) ==
    SeriesLower(SeriesConcat(SeriesConcat(SeriesStrip(row[master_firstname_field]), " "),
                             SeriesStrip(row[master_lastname_field])))

(* line 154 *)
UpdateFullNameKey(row) == SeriesLower(SeriesStrip(row[update_name_field]))

WithColumn(rows, col, Value(_)) ==
    [k \in DOMAIN rows |-> [c \in DOMAIN rows[k] \cup {col} |-> IF c = col THEN Value(rows[k]) ELSE rows[k][c]]]

(* lines 169-192: the update-only columns to add to the master.            *)
ExtraColumns(mcols, ucols, common) ==
    LET excluded == {update_name_field, update_timestamp_field, FULL_NAME_KEY}
                        \cup MappingSources \cup common
    IN  (ucols \ mcols) \ excluded

LoadData ==
    /\ pc = "load_data"
    /\ UNCHANGED postal_vars
    /\ \/ /\ pc' = "raised"
          /\ error' = "ValueError: Error loading file"
          /\ UNCHANGED <<master_df, master_columns, update_df, update_columns,
                         common_columns, extra_columns, added_columns,
                         master_loaded, update_loaded>>
       \/ \E pair \in WorkbookPairs :
            LET m == ReadExcel(pair.master)
                u == ReadExcel(pair.update)
                merr == MasterKeyError(m)
                uerr == IF merr # "" THEN merr ELSE UpdateKeyError(u)
                keyOf(row) == MasterFullNameKey(row)
                ukeyOf(row) == UpdateFullNameKey(row)
                tsOf(row) == ToDatetime(row[update_timestamp_field])
                none(row) == NaN
                mcols == IF merr = "" THEN m.columns \cup {FULL_NAME_KEY} ELSE m.columns
                ucols == IF uerr = "" THEN u.columns \cup {FULL_NAME_KEY} ELSE u.columns
                mrows == IF merr = "" THEN WithColumn(m.rows, FULL_NAME_KEY, keyOf) ELSE m.rows
                urows == IF uerr = ""
                         THEN WithColumn(WithColumn(u.rows, FULL_NAME_KEY, ukeyOf),
                                         update_timestamp_field, tsOf)
                         ELSE u.rows
                common == mcols \cap ucols
                extra == IF include_extra_columns THEN ExtraColumns(mcols, ucols, common) ELSE {}
                RECURSIVE AddColumns(_, _)
                AddColumns(rows, cols) ==
                    IF cols = {} THEN rows
                    ELSE LET c == CHOOSE x \in cols : TRUE
                         IN  AddColumns(WithColumn(rows, c, none), cols \ {c})
            IN  IF uerr # ""
                THEN /\ pc' = "raised"
                     /\ error' = uerr
                     /\ master_df' = mrows
                     /\ master_columns' = mcols
                     /\ update_df' = urows
                     /\ update_columns' = ucols
                     /\ UNCHANGED <<common_columns, extra_columns, added_columns,
                                    master_loaded, update_loaded>>
                ELSE /\ pc' = "handle_duplicates"
                     /\ error' = ""
                     /\ master_df' = AddColumns(mrows, extra)
                     /\ master_columns' = mcols \cup extra
                     /\ update_df' = urows
                     /\ update_columns' = ucols
                     /\ common_columns' = common
                     /\ extra_columns' = extra
                     /\ added_columns' = extra
                     /\ master_loaded' = AddColumns(mrows, extra)
                     /\ update_loaded' = urows
    /\ UNCHANGED <<include_extra_columns, updated_rows, unmatched_entries, cursor,
                   exit_code, output_file>>

-----------------------------------------------------------------------------
(* handle_duplicates                                                       *)

(* DataFrame.duplicated(subset=[key], keep=False): the rows whose key      *)
(* occurs more than once; missing keys count as equal to each other.       *)
Duplicated(df) ==
    {k \in DOMAIN df : \E j \in DOMAIN df : j # k /\ df[j][FULL_NAME_KEY] = df[k][FULL_NAME_KEY]}

(* df[df[key] == name]: a missing name equals nothing, itself included.    *)
RowsWithKey(df, name) ==
    {k \in DOMAIN df : name # NaNStr /\ df[k][FULL_NAME_KEY] = name}

(* sort_values(by=timestamp, ascending=False): t1 sorts before t2; NaT     *)
(* sorts last.                                                             *)
SortsBefore(t1, t2) == notna(t1) /\ (isna(t2) \/ t1 > t2)

(* Mutant of FirstAfterSort: the first row of the group is kept, as        *)
(* drop_duplicates(keep='first') would.                                    *)
FirstAfterSort_KeepFirst(df, group) == {k \in group : \A j \in group : k <= j}

(* The rows that may come first when the group is sorted: none sorts       *)
(* before them.  The sort (quicksort) is not stable, so any of several     *)
(* rows with the same timestamp may be the first.                          *)
FirstAfterSort(df, group) ==
    {k \in group : \A j \in group :
        ~SortsBefore(df[j][update_timestamp_field], df[k][update_timestamp_field])}

(* df.drop(labels) then reset_index(drop=True)                             *)
RECURSIVE DropRows(_, _)
DropRows(df, labels) ==
    IF df = <<>> THEN <<>>
    ELSE LET rest == DropRows(Tail(df), labels)
         IN  IF Head(df)[INDEX] \in labels THEN rest ELSE <<Head(df)>> \o rest

(* Mutant of ResetIndex: the labels are left as they were.                 *)
ResetIndex_Skipped(df) == df

ResetIndex(df) == [k \in DOMAIN df |-> [df[k] EXCEPT ![INDEX] = k - 1]]

HandleDuplicates ==
    /\ pc = "handle_duplicates"
    /\ UNCHANGED postal_vars
    /\ LET dup == Duplicated(update_df)
           names == {update_df[k][FULL_NAME_KEY] : k \in dup}
       IN  IF dup = {}
           THEN /\ pc' = "process_updates_begin"
                /\ UNCHANGED <<update_df, error>>
           ELSE IF \E name \in names : RowsWithKey(update_df, name) = {}
           THEN \* dupes is empty and dupes.iloc[0] raises
                /\ pc' = "raised"
                /\ error' = "IndexError"
                /\ UNCHANGED update_df
           ELSE \E kept \in [names -> DOMAIN update_df] :
                /\ \A name \in names :
                      kept[name] \in FirstAfterSort(update_df, RowsWithKey(update_df, name))
                /\ LET rows_to_drop ==
                          {update_df[k][INDEX] : k \in {j \in dup : kept[update_df[j][FULL_NAME_KEY]] # j}}
                   IN  update_df' = ResetIndex(DropRows(update_df, rows_to_drop))
                /\ pc' = "process_updates_begin"
                /\ UNCHANGED error
    /\ UNCHANGED <<include_extra_columns, master_df, master_columns, update_columns,
                   common_columns, extra_columns, added_columns, updated_rows,
                   unmatched_entries, cursor, exit_code, output_file,
                   master_loaded, update_loaded>>

-----------------------------------------------------------------------------
(* process_updates                                                         *)

(* line 291 *)
ProcessUpdatesBegin ==
    /\ pc = "process_updates_begin"
    /\ UNCHANGED postal_vars
    /\ master_df' = [k \in DOMAIN master_df |->
                        [c \in DOMAIN master_df[k] \cup {UPDATED_FLAG} |->
                            IF c = UPDATED_FLAG THEN FALSE ELSE master_df[k][c]]]
    /\ master_columns' = master_columns \cup {UPDATED_FLAG}
    /\ cursor' = 1
    /\ pc' = "process_updates"
    /\ UNCHANGED <<include_extra_columns, update_df, update_columns, common_columns,
                   extra_columns, added_columns, updated_rows, unmatched_entries,
                   error, exit_code, output_file, master_loaded, update_loaded>>

(* Mutant of SetRow: the written row is added to the frame, as .loc does   *)
(* for a label the frame does not have.                                    *)
SetRow_Enlarges(df, master_index, row) == Append(df, row)

(* self.master_df.loc[master_index, col] = value (lines 324, 340, 348, 356, *)
(* 358): the row labelled master_index is written in place.                *)
SetRow(df, master_index, row) == [df EXCEPT ![master_index] = row]

(* line 298: the master rows whose key equals the update row's key.        *)
Matches(df, key) == {k \in DOMAIN df : key # NaNStr /\ df[k][FULL_NAME_KEY] = key}

(* Mutants of ShouldCopy: without the presence test; without the          *)
(* difference test.                                                        *)
ShouldCopy_NoPresenceCheck(master_value, update_value) == master_value # update_value
ShouldCopy_NoDifferenceCheck(master_value, update_value) == notna(update_value)

(* lines 323 and 339: copy when the update value is present and differs.   *)
ShouldCopy(master_value, update_value) ==
    notna(update_value) /\ master_value # update_value

(* lines 320-326, one entry of field_mappings applied to the state         *)
(* acc = [row, updated, updated_fields, error] of the loop.                *)
ApplyMapping(acc, mapping, update_row, ucols, mcols) ==
    LET uf == mapping.update_field
        mf == mapping.master_field
    IN  IF acc.error # "" \/ uf \notin ucols THEN acc
        ELSE IF notna(update_row[uf]) /\ mf \notin mcols THEN [acc EXCEPT !.error = "KeyError"]
        ELSE IF mf \in mcols /\ ShouldCopy(acc.row[mf], update_row[uf])
        THEN [acc EXCEPT !.row = [@ EXCEPT ![mf] = update_row[uf]],
                         !.updated = TRUE,
                         !.updated_fields = @ \cup {mf}]
        ELSE acc

RECURSIVE ApplyMappings(_, _, _, _, _)
ApplyMappings(acc, k, update_row, ucols, mcols) ==
    IF k > Len(field_mappings) THEN acc
    ELSE ApplyMappings(ApplyMapping(acc, field_mappings[k], update_row, ucols, mcols),
                       k + 1, update_row, ucols, mcols)

(* lines 329-336: the same-named columns the second loop does not skip.    *)
SameNamedColumns(common) ==
    ((common \ {update_name_field, update_timestamp_field, FULL_NAME_KEY})
        \ MappingSources) \ MappingTargets

(* lines 329-342 *)
ApplyCommon(acc, update_row, common) ==
    LET changed == {c \in SameNamedColumns(common) : ShouldCopy(acc.row[c], update_row[c])}
    IN  IF acc.error # "" \/ changed = {} THEN acc
        ELSE [acc EXCEPT !.row = [c \in DOMAIN @ |-> IF c \in changed THEN update_row[c] ELSE @[c]],
                         !.updated = TRUE,
                         !.updated_fields = @ \cup changed]

(* line 350, read after the write of line 348: the cell then holds the     *)
(* update value.                                                           *)
ExtraCountsAsUpdate(cell_after_write, updated_fields) ==
    isna(cell_after_write) /\ updated_fields = {}

(* lines 345-352 *)
ApplyExtra(acc, update_row, include_extra, extra) ==
    LET written == {c \in extra : notna(update_row[c])}
        row == [c \in DOMAIN acc.row |-> IF c \in written THEN update_row[c] ELSE acc.row[c]]
        counted == {c \in written : ExtraCountsAsUpdate(row[c], acc.updated_fields)}
    IN  IF acc.error # "" \/ ~include_extra THEN acc
        ELSE [acc EXCEPT !.row = row,
                         !.updated = @ \/ counted # {},
                         !.updated_fields = @ \cup counted]

(* lines 355-359.  Every master workbook of the model has the column       *)
(* master_updated_field, so line 358 writes into an existing column.       *)
MarkUpdated(acc, timestamp) ==
    IF acc.error # "" \/ ~acc.updated THEN acc
    ELSE [acc EXCEPT !.row = [c \in DOMAIN @ |->
                                 CASE c = UPDATED_FLAG -> TRUE
                                   [] c = master_updated_field /\ notna(timestamp) -> timestamp
                                   [] OTHER -> @[c]]]

(* Mutant of CountUpdatedRow: the counter advances once per changed field. *)
CountUpdatedRow_PerField(count, acc) == count + Cardinality(acc.updated_fields)

(* line 359, under the test of line 355: the counter advances once for a   *)
(* row that was updated.                                                   *)
CountUpdatedRow(count, acc) == IF acc.updated THEN count + 1 ELSE count

(* lines 315-359 for one matched pair.                                     *)
Reconcile(master_row, update_row, ucols, mcols, common, include_extra, extra) ==
    LET start == [row |-> master_row, updated |-> FALSE, updated_fields |-> {}, error |-> ""]
        mapped == ApplyMappings(start, 1, update_row, ucols, mcols)
        same == ApplyCommon(mapped, update_row, common)
        extras == ApplyExtra(same, update_row, include_extra, extra)
    IN  MarkUpdated(extras, update_row[update_timestamp_field])

(* lines 303-308 *)
UnmatchedEntry(update_row) ==
    [row |-> update_row[INDEX],
     name |-> update_row[update_name_field],
     key |-> update_row[FULL_NAME_KEY],
     timestamp |-> update_row[update_timestamp_field]]

(* One iteration of the loop of line 293.                                  *)
ProcessRow ==
    /\ pc = "process_updates"
    /\ UNCHANGED postal_vars
    /\ cursor <= Len(update_df)
    /\ LET update_row == update_df[cursor]
           mask == Matches(master_df, update_row[FULL_NAME_KEY])
       IN  IF mask = {}
           THEN /\ unmatched_entries' = Append(unmatched_entries, UnmatchedEntry(update_row))
                /\ cursor' = cursor + 1
                /\ UNCHANGED <<master_df, master_columns, updated_rows, pc, error>>
           ELSE IF Cardinality(mask) > 1
           THEN /\ pc' = "raised"
                /\ error' = "ValueError: Multiple matches"
                /\ UNCHANGED <<master_df, master_columns, updated_rows, unmatched_entries, cursor>>
           ELSE LET master_index == CHOOSE k \in mask : TRUE
                    r == Reconcile(master_df[master_index], update_row, update_columns,
                                   master_columns, common_columns,
                                   include_extra_columns, extra_columns)
                IN  /\ master_df' = SetRow(master_df, master_index, r.row)
                    /\ master_columns' = master_columns
                    /\ IF r.error # ""
                       THEN /\ pc' = "raised"
                            /\ error' = r.error
                            /\ UNCHANGED <<updated_rows, cursor>>
                       ELSE /\ updated_rows' = CountUpdatedRow(updated_rows, r)
                            /\ cursor' = cursor + 1
                            /\ UNCHANGED <<pc, error>>
                    /\ UNCHANGED unmatched_entries
    /\ UNCHANGED <<include_extra_columns, update_df, update_columns, common_columns,
                   extra_columns, added_columns, exit_code, output_file,
                   master_loaded, update_loaded>>

(* The loop of line 293 is exhausted and process_updates returns.          *)
ProcessUpdatesReturn ==
    /\ pc = "process_updates"
    /\ UNCHANGED postal_vars
    /\ cursor > Len(update_df)
    /\ pc' = "handle_timestamps"
    /\ UNCHANGED <<include_extra_columns, master_df, master_columns, update_df,
                   update_columns, common_columns, extra_columns, added_columns,
                   updated_rows, unmatched_entries, cursor, error, exit_code,
                   output_file, master_loaded, update_loaded>>

-----------------------------------------------------------------------------
(* handle_timestamps                                                       *)

(* Mutant of ResolveTimestamp: the legacy timestamp fills every record     *)
(* without a primary timestamp, the updated ones too.                      *)
ResolveTimestamp_FillsUpdated(row, legacy) ==
    LET primary == ToDatetime(row[master_updated_field])
        secondary == IF legacy THEN ToDatetime(row[MASTER_UPDATED_2]) ELSE NaN
    IN  [c \in DOMAIN row |->
            CASE c = master_updated_field -> IF legacy /\ isna(primary) THEN secondary ELSE primary
              [] c = MASTER_UPDATED_2 -> secondary
              [] OTHER -> row[c]]

(* lines 374-393 on one row; legacy says whether the column                *)
(* MASTER_UPDATED_2 exists.                                                *)
ResolveTimestamp(row, legacy) ==
    LET non_updated == ~row[UPDATED_FLAG]
        primary == ToDatetime(row[master_updated_field])
        secondary == IF legacy THEN ToDatetime(row[MASTER_UPDATED_2]) ELSE NaN
        fill == legacy /\ non_updated /\ isna(primary)
    IN  [c \in DOMAIN row |->
            CASE c = master_updated_field -> ToDatetime(IF fill THEN secondary ELSE primary)
              [] c = MASTER_UPDATED_2 -> secondary
              [] OTHER -> row[c]]

HandleTimestamps ==
    /\ pc = "handle_timestamps"
    /\ UNCHANGED postal_vars
    /\ IF master_updated_field \notin master_columns
       THEN /\ pc' = "raised"
            /\ error' = "KeyError"
            /\ UNCHANGED master_df
       ELSE /\ master_df' = [k \in DOMAIN master_df |->
                                ResolveTimestamp(master_df[k], MASTER_UPDATED_2 \in master_columns)]
            /\ pc' = "clean_data"
            /\ UNCHANGED error
    /\ UNCHANGED <<include_extra_columns, master_columns, update_df, update_columns,
                   common_columns, extra_columns, added_columns, updated_rows,
                   unmatched_entries, cursor, exit_code, output_file,
                   master_loaded, update_loaded>>

-----------------------------------------------------------------------------
(* clean_data                                                              *)

(* str.title on the names of the model.                                    *)
StrTitle(s) ==
    CASE s = "anna" -> "Anna"
      [] s = "erkki" -> "Erkki"
      [] s = "korhonen" -> "Korhonen"
      [] OTHER -> s

(* proper_case, lines 458-462 *)
proper_case(text) == IF text = NaNStr THEN text ELSE StrTitle(StrStrip(text))

(* normalize_phone, lines 465-475.  In the phone column the value 2 stands *)
(* for a number written "+358 ..." whose local form is the value 1; every  *)
(* other value is already in local form.                                   *)
normalize_phone(phone) == IF isna(phone) THEN phone ELSE IF phone = 2 THEN 1 ELSE phone

(* str.capitalize on the column names of the model.                        *)
StrCapitalize(c) ==
    CASE c = "etunimi" -> "Etunimi"
      [] c = "sukunimi" -> "Sukunimi"
      [] c = "päivitys pvm" -> "Päivitys pvm"
      [] c = "katuosoite" -> "Katuosoite"
      [] c = "sähköposti" -> "Sähköposti"
      [] c = "puhelinnumero" -> "Puhelinnumero"
      [] c = "syntymävuosi" -> "Syntymävuosi"
      [] OTHER -> c

(* lines 417-419 *)
ColumnsToDrop(cols) ==
    (IF MASTER_UPDATED_2 \in cols THEN {MASTER_UPDATED_2} ELSE {}) \cup {UPDATED_FLAG, FULL_NAME_KEY}

(* lines 405-423 on one row.  No master workbook of the merge runs has a   *)
(* postal-code column; format_postal_code is exercised by PostalSpec.      *)
CleanRow(row, cols) ==
    LET kept == (cols \ ColumnsToDrop(cols)) \cup {INDEX}
        Cleaned(c) ==
            CASE c = master_firstname_field \/ c = master_lastname_field -> proper_case(row[c])
              [] c = MASTER_PHONE -> normalize_phone(row[c])
              [] c = MASTER_POSTAL_CODE -> format_postal_code(row[c])
              [] OTHER -> row[c]
        Old(n) == CHOOSE c \in kept : StrCapitalize(c) = n
    IN  [n \in {StrCapitalize(c) : c \in kept} |-> Cleaned(Old(n))]

CleanData ==
    /\ pc = "clean_data"
    /\ UNCHANGED postal_vars
    /\ master_df' = [k \in DOMAIN master_df |-> CleanRow(master_df[k], master_columns)]
    /\ master_columns' = {StrCapitalize(c) : c \in master_columns \ ColumnsToDrop(master_columns)}
    /\ pc' = "save_result"
    /\ UNCHANGED <<include_extra_columns, update_df, update_columns, common_columns,
                   extra_columns, added_columns, updated_rows, unmatched_entries,
                   cursor, error, exit_code, output_file, master_loaded, update_loaded>>

-----------------------------------------------------------------------------
(* save_result, lines 427-428: to_excel(index=False) writes the columns    *)
(* and the rows in their order, without the index labels.                  *)
SaveResult ==
    /\ pc = "save_result"
    /\ UNCHANGED postal_vars
    /\ output_file' = [columns |-> master_columns,
                       rows |-> [k \in DOMAIN master_df |->
                                    [c \in master_columns |-> master_df[k][c]]]]
    /\ pc' = "saved"
    /\ UNCHANGED <<include_extra_columns, master_df, master_columns, update_df,
                   update_columns, common_columns, extra_columns, added_columns,
                   updated_rows, unmatched_entries, cursor, error, exit_code,
                   master_loaded, update_loaded>>

-----------------------------------------------------------------------------
(* main, lines 532-537                                                     *)
MainReturn ==
    /\ pc = "saved"
    /\ UNCHANGED postal_vars
    /\ exit_code' = 0
    /\ pc' = "exit"
    /\ UNCHANGED <<include_extra_columns, master_df, master_columns, update_df,
                   update_columns, common_columns, extra_columns, added_columns,
                   updated_rows, unmatched_entries, cursor, error, output_file,
                   master_loaded, update_loaded>>

(* Mutant of MainExcept: the handler also writes out the master as it is.  *)
MainExcept_SavesPartial ==
    /\ pc = "raised"
    /\ UNCHANGED postal_vars
    /\ exit_code' = 1
    /\ pc' = "exit"
    /\ output_file' = [columns |-> master_columns, rows |-> master_df]
    /\ UNCHANGED <<include_extra_columns, master_df, master_columns, update_df,
                   update_columns, common_columns, extra_columns, added_columns,
                   updated_rows, unmatched_entries, cursor, error,
                   master_loaded, update_loaded>>

MainExcept ==
    /\ pc = "raised"
    /\ UNCHANGED postal_vars
    /\ exit_code' = 1
    /\ pc' = "exit"
    /\ UNCHANGED <<include_extra_columns, master_df, master_columns, update_df,
                   update_columns, common_columns, extra_columns, added_columns,
                   updated_rows, unmatched_entries, cursor, error, output_file,
                   master_loaded, update_loaded>>

(* run, lines 448-455, inside main's try *)
Next ==
    \/ LoadData
    \/ HandleDuplicates
    \/ ProcessUpdatesBegin
    \/ ProcessRow
    \/ ProcessUpdatesReturn
    \/ HandleTimestamps
    \/ CleanData
    \/ SaveResult
    \/ MainReturn
    \/ MainExcept

Spec == Init /\ [][Next]_vars

-----------------------------------------------------------------------------
(* format_postal_code on its own: a cell of a postal-code column holds any *)
(* of the input values, and the function is applied to it, and once more   *)
(* to its result - as _convert_float_columns_to_int (line 238) and then    *)
(* clean_data (line 414) apply it to the master's postal-code column.      *)
PostalInit ==
    /\ postal_input \in PostalInputs
    /\ postal_code = postal_input
    /\ applications = 0
    /\ include_extra_columns = FALSE
    /\ pc = "format_postal_code"
    /\ master_df = <<>>
    /\ master_columns = {}
    /\ update_df = <<>>
    /\ update_columns = {}
    /\ common_columns = {}
    /\ extra_columns = {}
    /\ added_columns = {}
    /\ updated_rows = 0
    /\ unmatched_entries = <<>>
    /\ cursor = 0
    /\ error = ""
    /\ exit_code = -1
    /\ output_file = NoFile
    /\ master_loaded = <<>>
    /\ update_loaded = <<>>

FormatPostalCode ==
    /\ pc = "format_postal_code"
    /\ applications < MaxApply
    /\ postal_code # OverflowError
    /\ postal_code' = format_postal_code(postal_code)
    /\ applications' = applications + 1
    /\ UNCHANGED postal_input
    /\ UNCHANGED merge_vars

PostalNext == FormatPostalCode

PostalSpec == PostalInit /\ [][PostalNext]_vars

-----------------------------------------------------------------------------
(* Vocabulary of the properties.                                           *)

(* The next step is an iteration of process_updates' loop.                 *)
Processing == pc = "process_updates" /\ cursor <= Len(update_df)
CurrentUpdate == update_df[cursor]

(* The fields of a master record that reconciliation may copy into: every  *)
(* column but the bookkeeping ones.                                        *)
ReconciledFields == master_columns \ {UPDATED_FLAG, master_updated_field, FULL_NAME_KEY}

(* The update column whose value feeds master field c.                     *)
SourceColumn(c) ==
    IF c \in MappingTargets
    THEN (CHOOSE m \in Range(field_mappings) : m.master_field = c).update_field
    ELSE c

(* The update columns whose value may feed master field c: the mapped      *)
(* source, and the column of the same name when it is passed through as an *)
(* extra column.                                                           *)
SourceColumns(c) ==
    ({SourceColumn(c)} \cup (IF c \in extra_columns THEN {c} ELSE {})) \cap update_columns

(* The next step changes field c of master record k.                       *)
Overwrites(k, c) == Processing /\ master_df'[k][c] # master_df[k][c]

(* An update timestamp is newer than a master record's timestamp; a master *)
(* record without a (parsable) timestamp is older than every update.       *)
Newer(update_ts, master_ts) ==
    isna(ToDatetime(master_ts)) \/ (notna(update_ts) /\ update_ts > master_ts)

SameFields(row1, row2, cols) == \A c \in cols : row1[c] = row2[c]

(* process_updates has aborted on an ambiguous master key.                 *)
AmbiguousAbort == error = "ValueError: Multiple matches"

-----------------------------------------------------------------------------
(* C1, as stated: process_updates overwrites a master field only when the  *)
(* update record's timestamp is newer than the master record's 'päivitys   *)
(* pvm' and the update value differs from the master value.                *)
C1_OverwriteOnlyWhenNewer ==
    [][\A k \in DOMAIN master_df : \A c \in ReconciledFields :
          Overwrites(k, c) =>
              /\ Newer(CurrentUpdate[update_timestamp_field], master_df[k][master_updated_field])
              /\ \E s \in SourceColumns(c) : CurrentUpdate[s] # master_df[k][c]]_vars

(* C1, amended: process_updates overwrites a master field only in the      *)
(* record the current update record matches, only when the update value is *)
(* present and differs from the master value, and then with that value;    *)
(* the timestamps are not compared.                                        *)
C1_OverwriteOnlyPresentAndDifferent ==
    [][\A k \in DOMAIN master_df : \A c \in ReconciledFields :
          Overwrites(k, c) =>
              /\ master_df[k][FULL_NAME_KEY] = CurrentUpdate[FULL_NAME_KEY]
              /\ \E s \in SourceColumns(c) :
                    /\ notna(CurrentUpdate[s])
                    /\ CurrentUpdate[s] # master_df[k][c]
                    /\ master_df'[k][c] = CurrentUpdate[s]]_vars

(* C1 witness: an update record older than the master record it matches    *)
(* has replaced a present master address with a different one.             *)
C1_Witness ==
    /\ pc = "process_updates" /\ cursor = 2 /\ Len(master_df) = 1
    /\ MASTER_ADDRESS \in master_columns /\ UPDATE_ADDRESS \in update_columns
    /\ notna(update_df[1][update_timestamp_field])
    /\ update_df[1][update_timestamp_field] < master_loaded[1][master_updated_field]
    /\ notna(master_loaded[1][MASTER_ADDRESS])
    /\ master_df[1][MASTER_ADDRESS] # master_loaded[1][MASTER_ADDRESS]
    /\ master_df[1][MASTER_ADDRESS] = update_df[1][UPDATE_ADDRESS]

(* C2, as stated: when the run aborts on an ambiguous master key, every    *)
(* master record still has the field values it had when process_updates    *)
(* started.                                                                *)
C2_NoWriteBeforeAmbiguousAbort ==
    AmbiguousAbort =>
        \A k \in DOMAIN master_df :
            SameFields(master_df[k], master_loaded[k], DOMAIN master_loaded[k])

(* C3, as stated: a run whose master dataset has two records with the same *)
(* identity key never completes normally.                                  *)
C3_DuplicateMasterKeyIsFatal ==
    (\E j, k \in DOMAIN master_loaded :
        /\ j # k
        /\ master_loaded[j][FULL_NAME_KEY] # NaNStr
        /\ master_loaded[j][FULL_NAME_KEY] = master_loaded[k][FULL_NAME_KEY])
    => exit_code # 0 /\ output_file = NoFile

-----------------------------------------------------------------------------
(* process_updates has returned.                                           *)
ProcessDone ==
    \/ pc \in {"handle_timestamps", "clean_data", "save_result", "saved"}
    \/ pc = "exit" /\ exit_code = 0

(* No master record has the update record's key (a missing key equals      *)
(* none).                                                                  *)
HasNoMaster(update_row) ==
    \A k \in DOMAIN master_loaded :
        update_row[FULL_NAME_KEY] = NaNStr
        \/ master_loaded[k][FULL_NAME_KEY] # update_row[FULL_NAME_KEY]

UnmatchedPositions == {i \in DOMAIN update_df : HasNoMaster(update_df[i])}

C4_Accounting ==
    ProcessDone =>
        /\ Len(unmatched_entries) = Cardinality(UnmatchedPositions)
        /\ \A e \in DOMAIN unmatched_entries :
              LET entry == unmatched_entries[e]
                  i == entry.row + 1
              IN  /\ i \in UnmatchedPositions
                  /\ entry.name = update_df[i][update_name_field]
                  /\ entry.key = update_df[i][FULL_NAME_KEY]
                  /\ entry.timestamp = update_df[i][update_timestamp_field]
        /\ \A e1, e2 \in DOMAIN unmatched_entries :
              e1 < e2 => unmatched_entries[e1].row < unmatched_entries[e2].row

C4_Frame ==
    Processing /\ HasNoMaster(CurrentUpdate) =>
        master_df' = master_df /\ updated_rows' = updated_rows

(* C4: once process_updates has returned, unmatched_entries lists, in      *)
(* update-dataset order and once each, exactly the deduplicated update     *)
(* records whose key no master record has, each with its row index, name,  *)
(* key and timestamp; and processing such a record changes neither the     *)
(* master dataset nor updated_rows.                                        *)
C4_UnmatchedAccounting == [](C4_Accounting) /\ [][C4_Frame]_vars

(* C4 witness: a run that dropped a duplicate and then recorded the        *)
(* retained record as unmatched.                                           *)
C4_Witness ==
    /\ pc = "handle_timestamps"
    /\ Len(unmatched_entries) = 1
    /\ Len(update_df) < Len(update_loaded)

-----------------------------------------------------------------------------
(* Master record k is the one record the current update record matches.    *)
UniqueMatch(k) ==
    /\ Processing
    /\ CurrentUpdate[FULL_NAME_KEY] # NaNStr
    /\ {j \in DOMAIN master_df : master_df[j][FULL_NAME_KEY] = CurrentUpdate[FULL_NAME_KEY]} = {k}

(* Every mapped and every same-named non-key update value is absent or     *)
(* equal to the master value.                                              *)
NoOpPair(update_row, master_row) ==
    /\ \A m \in Range(field_mappings) :
          m.update_field \in update_columns =>
              \/ isna(update_row[m.update_field])
              \/ m.master_field \in master_columns
                    /\ master_row[m.master_field] = update_row[m.update_field]
    /\ \A c \in SameNamedColumns(common_columns) :
          isna(update_row[c]) \/ master_row[c] = update_row[c]

(* No update-only column is passed through, or none has a value.           *)
NoExtraValue(update_row) ==
    ~include_extra_columns \/ \A c \in extra_columns : isna(update_row[c])

(* C5, as stated: a uniquely matched pair whose mapped and same-named      *)
(* update values are all absent or equal to the master values leaves the   *)
(* master record (fields, Updated flag, timestamp) and updated_rows        *)
(* unchanged.                                                              *)
C5_NoOpOnEqualValues ==
    [][\A k \in DOMAIN master_df :
          UniqueMatch(k) /\ NoOpPair(CurrentUpdate, master_df[k]) =>
              master_df'[k] = master_df[k] /\ updated_rows' = updated_rows]_vars

(* C5, amended: the same, for a pair that in addition has no present value *)
(* in an extra (update-only) column when include_extra_columns is enabled. *)
C5_NoOpOnEqualValuesNoExtra ==
    [][\A k \in DOMAIN master_df :
          UniqueMatch(k) /\ NoOpPair(CurrentUpdate, master_df[k]) /\ NoExtraValue(CurrentUpdate) =>
              master_df'[k] = master_df[k] /\ updated_rows' = updated_rows]_vars

(* C5 witness: an update record with a present phone number equal to the   *)
(* master's, and nothing else to copy, has been processed and the master   *)
(* record is not marked.                                                   *)
C5_Witness ==
    /\ pc = "process_updates" /\ cursor = 2 /\ Len(master_df) = 1
    /\ master_df[1][FULL_NAME_KEY] = update_df[1][FULL_NAME_KEY]
    /\ MASTER_PHONE \in common_columns
    /\ notna(update_df[1][UPDATE_PHONE])
    /\ NoOpPair(update_df[1], master_loaded[1])
    /\ NoExtraValue(update_df[1])
    /\ ~master_df[1][UPDATED_FLAG]
    /\ updated_rows = 0

-----------------------------------------------------------------------------
(* handle_duplicates has returned.                                         *)
DedupDone == pc = "process_updates_begin" \/ cursor > 0

StripIndex(row) == [c \in DOMAIN row \ {INDEX} |-> row[c]]
KeyRows(df, key) == {k \in DOMAIN df : df[k][FULL_NAME_KEY] = key}

(* t1 is at least as recent as t2; an absent timestamp is the oldest.      *)
AtLeastAsRecent(t1, t2) == isna(t2) \/ (notna(t1) /\ t1 >= t2)

(* C6: after handle_duplicates every key of the loaded update dataset is   *)
(* the key of exactly one remaining record, which is a record of that      *)
(* key's group with the greatest timestamp (absent is oldest) - so a       *)
(* record with a unique key is retained as it was; the remaining records   *)
(* are relabelled in order; and a master record process_updates marks was  *)
(* written from the retained record of its key.                            *)
C6_LatestWins ==
    DedupDone =>
        /\ \A j \in DOMAIN update_loaded :
              LET key == update_loaded[j][FULL_NAME_KEY]
                  group == KeyRows(update_loaded, key)
                  remaining == KeyRows(update_df, key)
              IN  /\ Cardinality(remaining) = 1
                  /\ \A r \in remaining :
                        /\ \E g \in group : StripIndex(update_loaded[g]) = StripIndex(update_df[r])
                        /\ \A g \in group :
                              AtLeastAsRecent(update_df[r][update_timestamp_field],
                                              update_loaded[g][update_timestamp_field])
        /\ \A r \in DOMAIN update_df :
              /\ update_df[r][INDEX] = r - 1
              /\ KeyRows(update_loaded, update_df[r][FULL_NAME_KEY]) # {}
        /\ pc \in {"process_updates", "handle_timestamps"} =>
              \A k \in DOMAIN master_df :
                  master_df[k][UPDATED_FLAG] =>
                      \E r \in DOMAIN update_df :
                          /\ r < cursor
                          /\ update_df[r][FULL_NAME_KEY] = master_df[k][FULL_NAME_KEY]
                          /\ notna(update_df[r][update_timestamp_field]) =>
                                master_df[k][master_updated_field] = update_df[r][update_timestamp_field]

(* C6 witness: of two update records whose names normalise to the same     *)
(* key and whose timestamps differ, one remains and has been applied.      *)
C6_Witness ==
    /\ pc = "handle_timestamps"
    /\ Len(update_loaded) = 2 /\ Len(update_df) = 1
    /\ update_loaded[1][update_name_field] # update_loaded[2][update_name_field]
    /\ update_loaded[1][update_timestamp_field] # update_loaded[2][update_timestamp_field]
    /\ updated_rows = 1

-----------------------------------------------------------------------------
(* load_data has returned.                                                 *)
LoadDone == FULL_NAME_KEY \in common_columns

(* C7: from load_data on, through every stage and in the written output,   *)
(* the master dataset has the records load_data read, in the same order:   *)
(* the same number of rows, each under its own index label, and the        *)
(* output's k-th row is the k-th input record.                             *)
C7_RowPreservation ==
    LoadDone =>
        /\ Len(master_df) = Len(master_loaded)
        /\ \A k \in DOMAIN master_df : master_df[k][INDEX] = master_loaded[k][INDEX]
        /\ output_file # NoFile =>
              /\ Len(output_file.rows) = Len(master_loaded)
              /\ \A k \in DOMAIN output_file.rows :
                    output_file.rows[k][StrCapitalize(master_firstname_field)]
                        = proper_case(master_loaded[k][master_firstname_field])

(* C7 witness: a written output of three master records with different     *)
(* names, one of which an update record changed.                           *)
C7_Witness ==
    /\ pc = "saved"
    /\ Len(master_loaded) = 3
    /\ Len(output_file.rows) = 3
    /\ master_loaded[1][master_firstname_field] # master_loaded[2][master_firstname_field]
    /\ updated_rows = 1

(* C8: an output file exists only once every stage has completed without   *)
(* an exception (the loop of process_updates is exhausted, the timestamps  *)
(* are parsed, the bookkeeping columns are dropped); a run that raised has *)
(* written nothing and exits with 1; a run that completed exits with 0.    *)
C8_NoOutputOnFatalError ==
    /\ output_file # NoFile =>
          /\ error = ""
          /\ pc \in {"saved", "exit"}
          /\ cursor = Len(update_df) + 1
          /\ master_columns \cap {FULL_NAME_KEY, UPDATED_FLAG, MASTER_UPDATED_2} = {}
          /\ output_file.columns = master_columns
          /\ \A k \in DOMAIN output_file.rows :
                output_file.rows[k][StrCapitalize(master_updated_field)] # Unparsable
    /\ error # "" => output_file = NoFile /\ pc \in {"raised", "exit"}
    /\ pc = "exit" => exit_code = (IF error = "" THEN 0 ELSE 1)
    /\ pc # "exit" => exit_code = -1
    /\ exit_code = 0 => output_file # NoFile

(* C8 witness: a run that aborted on an ambiguous master key after it had  *)
(* changed a master record in memory has exited with 1 and no output.      *)
C8_Witness ==
    /\ pc = "exit" /\ exit_code = 1 /\ AmbiguousAbort
    /\ \E k \in DOMAIN master_df :
          master_df[k][MASTER_ADDRESS] # master_loaded[k][MASTER_ADDRESS]
    /\ output_file = NoFile

(* C9, as stated: a run in which a configured column is missing from its   *)
(* dataset, and in which an update record matched a master record (so that *)
(* every configured column has been called for), does not complete         *)
(* normally.                                                               *)
C9_MissingColumnIsFatal ==
    /\ exit_code = 0
    /\ \E r \in DOMAIN update_df : ~HasNoMaster(update_df[r])
    => /\ {update_name_field, update_timestamp_field} \cup MappingSources \subseteq update_columns
       /\ \A k \in DOMAIN master_loaded :
             {master_firstname_field, master_lastname_field} \cup MappingTargets
                 \subseteq DOMAIN master_loaded[k]

(* C10, as stated: a matched master record of which reconciliation changed *)
(* a field - an extra column's included - is marked touched.               *)
C10_ChangedRecordIsTouched ==
    pc \in {"process_updates", "handle_timestamps"} =>
        \A k \in DOMAIN master_df :
            (\E c \in ReconciledFields : master_df[k][c] # master_loaded[k][c])
                => master_df[k][UPDATED_FLAG] /\ updated_rows >= 1

-----------------------------------------------------------------------------
(* The matched master record k as the two loops of lines 319-342 leave it, *)
(* before the extra columns of the current update record are passed        *)
(* through (lines 345-352).                                                *)
BeforeExtra(k) ==
    ApplyCommon(ApplyMappings([row |-> master_df[k], updated |-> FALSE,
                               updated_fields |-> {}, error |-> ""],
                              1, CurrentUpdate, update_columns, master_columns),
                CurrentUpdate, common_columns)

(* The current update record's value of extra column c is passed through   *)
(* into master record k by the next step.                                  *)
PassesThrough(k, c) ==
    /\ UniqueMatch(k)
    /\ include_extra_columns
    /\ c \in extra_columns
    /\ BeforeExtra(k).error = ""
    /\ notna(CurrentUpdate[c])

(* C11, as stated: whenever process_updates copies an update-only column's *)
(* value into a master record, that master cell is absent immediately      *)
(* before the write; and no step of process_updates changes a present      *)
(* value of an extra column.                                               *)
C11_ExtraWritesOnlyAbsentCells ==
    [][\A k \in DOMAIN master_df : \A c \in extra_columns :
          /\ PassesThrough(k, c) => isna(BeforeExtra(k).row[c])
          /\ Processing /\ notna(master_df[k][c]) => master_df'[k][c] = master_df[k][c]]_vars

-----------------------------------------------------------------------------
(* The master records whose Updated flag is set.                           *)
Flagged(df) == {k \in DOMAIN df : df[k][UPDATED_FLAG]}

(* Master record k is as load_data read it: no update record has written   *)
(* it or marked it.                                                        *)
Unwritten(k) ==
    SameFields(master_df[k], master_loaded[k], DOMAIN master_loaded[k])
    /\ ~master_df[k][UPDATED_FLAG]

C12_Counting ==
    /\ UPDATED_FLAG \in master_columns =>
          updated_rows = Cardinality(Flagged(master_df))
    /\ cursor > 0 /\ cursor <= Len(update_df) + 1 =>
          updated_rows + Len(unmatched_entries) <= cursor - 1
    /\ updated_rows + Len(unmatched_entries) <= Len(update_df)

C12_Step ==
    Processing =>
        /\ updated_rows' \in {updated_rows, updated_rows + 1}
        /\ updated_rows' = updated_rows + 1 <=>
              \E k \in DOMAIN master_df :
                  /\ ~master_df[k][UPDATED_FLAG] /\ master_df'[k][UPDATED_FLAG]
                  /\ master_df[k][FULL_NAME_KEY] = CurrentUpdate[FULL_NAME_KEY]
        /\ \A k \in DOMAIN master_df :
              master_df'[k] # master_df[k] =>
                  /\ Unwritten(k)
                  /\ \A j \in DOMAIN master_df : j # k => master_df'[j] = master_df[j]

(* C12: from the start of process_updates on, updated_rows is the number   *)
(* of master records whose Updated flag is set; an iteration increases it  *)
(* by one exactly when it marks a record, however many fields it changed;  *)
(* an iteration writes one master record at most, and only a record no     *)
(* earlier update record has written; and updated_rows plus the number of  *)
(* unmatched entries never exceeds the number of update records processed, *)
(* so at the end not the number of deduplicated update records.            *)
C12_UpdatedRowCounting == [](C12_Counting) /\ [][C12_Step]_vars

(* C12 witness: process_updates has returned after one update record       *)
(* changed two fields or more of a master record, which is marked and      *)
(* counted once.                                                           *)
C12_Witness ==
    /\ pc = "handle_timestamps"
    /\ updated_rows = 1
    /\ \E k \in DOMAIN master_df :
          /\ master_df[k][UPDATED_FLAG]
          /\ Cardinality({c \in ReconciledFields : master_df[k][c] # master_loaded[k][c]}) >= 2

-----------------------------------------------------------------------------
(* handle_timestamps has just returned: the master records still carry the *)
(* Updated flag and the legacy column.                                     *)
TimestampsDone == pc = "clean_data"

(* The primary timestamp master record k was loaded with, as a date.       *)
PriorTimestamp(k) == ToDatetime(master_loaded[k][master_updated_field])

(* The legacy column exists and master record k has a date in it.          *)
LegacyPresent(k) ==
    /\ MASTER_UPDATED_2 \in DOMAIN master_loaded[k]
    /\ notna(ToDatetime(master_loaded[k][MASTER_UPDATED_2]))

(* The timestamps of the update records that have master record k's key.   *)
UpdateTimestamps(k) ==
    {update_df[r][update_timestamp_field] :
        r \in {j \in DOMAIN update_df : update_df[j][FULL_NAME_KEY] = master_df[k][FULL_NAME_KEY]}}

(* C13: when handle_timestamps has returned, the primary timestamp of a    *)
(* master record is (a) the update record's timestamp if the record is     *)
(* marked Updated and that timestamp is present; (b) the record's prior    *)
(* primary timestamp if it is marked Updated and the update timestamp is   *)
(* absent, whatever the legacy column holds; (c) the legacy timestamp if   *)
(* the record is not marked, its prior primary timestamp is absent and the *)
(* legacy column exists and is present; (d) the prior primary timestamp    *)
(* otherwise.  An unparsable value counts as absent, and no timestamp      *)
(* column holds one afterwards.                                            *)
C13_FinalPrimaryTimestamp ==
    TimestampsDone =>
        \A k \in DOMAIN master_df :
            LET final == master_df[k][master_updated_field]
            IN  /\ final # Unparsable
                /\ MASTER_UPDATED_2 \in master_columns => master_df[k][MASTER_UPDATED_2] # Unparsable
                /\ IF master_df[k][UPDATED_FLAG]
                   THEN \E ts \in UpdateTimestamps(k) :
                           /\ UpdateTimestamps(k) = {ts}
                           /\ ts # Unparsable
                           /\ final = IF notna(ts) THEN ts ELSE PriorTimestamp(k)
                   ELSE IF isna(PriorTimestamp(k)) /\ LegacyPresent(k)
                   THEN final = master_loaded[k][MASTER_UPDATED_2]
                   ELSE final = PriorTimestamp(k)

(* C13 witness: a record marked Updated by an update record without a      *)
(* timestamp, with no primary timestamp of its own and a present legacy    *)
(* timestamp, has come out of handle_timestamps without a primary          *)
(* timestamp.                                                              *)
C13_Witness ==
    /\ TimestampsDone
    /\ \E k \in DOMAIN master_df :
          /\ master_df[k][UPDATED_FLAG]
          /\ UpdateTimestamps(k) = {NaN}
          /\ isna(PriorTimestamp(k))
          /\ LegacyPresent(k)
          /\ isna(master_df[k][master_updated_field])

-----------------------------------------------------------------------------
(* A number (int or float), and a string of digits only.                   *)
IsNumeric(v) == v.type \in {"int", "float", "inf"}
IsDigitString(v) == v.type = "str" /\ StrIsDigit(v.chars)

(* A string of exactly PostalWidth characters, all of them digits.         *)
IsFiveDigits(v) ==
    /\ v.type = "str"
    /\ Len(v.chars) = PostalWidth
    /\ \A k \in DOMAIN v.chars : v.chars[k] \in DigitChars

(* C14, as stated: format_postal_code turns every number and every string  *)
(* of digits into a string of exactly five digits - a number of more than  *)
(* five digits and a negative number too; it returns an absent value and a *)
(* string that is not all digits unchanged; and applied to its own result  *)
(* it returns that result.                                                 *)
C14_PostalCodeFormatting ==
    applications >= 1 =>
        /\ IsNumeric(postal_input) \/ IsDigitString(postal_input) => IsFiveDigits(postal_code)
        /\ ~(IsNumeric(postal_input) \/ IsDigitString(postal_input)) => postal_code = postal_input
        /\ applications >= 2 => postal_code = format_postal_code(postal_input)

=============================================================================
